---- MODULE Spec2Model ----
(***************************************************************************)
(* Model of the lint rule noUndeclaredVariables                            *)
(* (crates/biome_js_analyze/src/lint/correctness/no_undeclared_variables.rs)*)
(*                                                                         *)
(* The rule receives the unresolved references of one file from the        *)
(* semantic model, maps every reference through a closure that returns an  *)
(* Option<(TextRange, String)> (filter_map), collects the Some values into *)
(* a Vec (the signals) and turns every signal into one diagnostic.         *)
(*                                                                         *)
(* An Option<T> is modelled as a set with at most one element:             *)
(* None is {} and Some(v) is {v}.                                          *)
(***************************************************************************)
EXTENDS Naturals, Sequences, FiniteSets

VARIABLES
    js_globals,            \* the table behind crate::globals::is_js_global
    ts_globals,            \* the table behind crate::globals::is_ts_global
    globals,               \* the configured javascript.globals (ctx.is_global)
    source_type,           \* ctx.source_type::<JsFileSource>().language()
    jsx_runtime,           \* ctx.jsx_runtime()
    jsx_factory,           \* ctx.jsx_factory(), an Option
    jsx_fragment_factory,  \* ctx.jsx_fragment_factory(), an Option
    refs,                  \* the references all_unresolved_references() holds
    order,                 \* the order in which the iterator yields them
    pos,                   \* position of the iterator of run()
    signals,               \* the Vec<State> run() collects
    results,               \* what the closure returned for each reference
    dpos,                  \* next signal handed to diagnostic()
    diags,                 \* the diagnostics emitted so far
    pc,                    \* "run", "diagnostic" or "done"
    runs,                  \* number of the current invocation of run()
    prev                   \* results, signals and order of the previous invocation

vars == <<js_globals, ts_globals, globals, source_type, jsx_runtime, jsx_factory,
          jsx_fragment_factory, refs, order, pos, signals, results, dpos, diags,
          pc, runs, prev>>

config == <<js_globals, ts_globals, globals, source_type, jsx_runtime, jsx_factory,
            jsx_fragment_factory>>

----------------------------------------------------------------------------
(* Bounds of the model *)

\* longest chain of parents of an identifier
MaxDepth == 2
\* longest sequence of unresolved references of one file
MaxRefs == 2
\* how many times the analyzer invokes run() on the same file
MaxRuns == 2

----------------------------------------------------------------------------
(* Data *)

REACT_JSX_FACTORY == "React"

None == {}
Some(v) == {v}
Unwrap(opt) == CHOOSE v \in opt : TRUE

\* identifier texts the model draws from
Names == {"const", "arguments", "PromiseLike"}

\* factory names the model draws from ("react" differs from "React" in case only)
FactoryNames == {"React", "react", "h"}

\* the syntax kinds a parent of an identifier may have in the model
NodeKinds == {"TS_REFERENCE_TYPE", "TS_AS_EXPRESSION",
              "JS_ARROW_FUNCTION_EXPRESSION", "JS_FUNCTION_DECLARATION"}

\* every kind AnyJsFunction::cast accepts
AnyJsFunctionKinds == {"JS_ARROW_FUNCTION_EXPRESSION", "JS_FUNCTION_DECLARATION",
                       "JS_FUNCTION_EXPRESSION",
                       "JS_FUNCTION_EXPORT_DEFAULT_DECLARATION"}

RECURSIVE SeqsUpTo(_, _)
SeqsUpTo(S, n) ==
    IF n = 0 THEN {<<>>}
    ELSE LET shorter == SeqsUpTo(S, n - 1)
         IN shorter \cup {Append(s, x) : s \in {t \in shorter : Len(t) = n - 1}, x \in S}

Chains == SeqsUpTo(NodeKinds, MaxDepth)

\* An unresolved reference: its kind, the token the rule reads from it (the value
\* token of an identifier, the name token of a JSX element, the "<" of a fragment;
\* tokenOk is FALSE when the syntax tree lacks it), that token's trimmed text and
\* range, and the kinds of the parents of the node, nearest first.
Ref(kind, tokenOk, text, range, parents) ==
    [kind |-> kind, tokenOk |-> tokenOk, text |-> text, range |-> range,
     parents |-> parents]

IdentifierShapes ==
    {Ref("Identifier", TRUE, t, 0, c) : t \in Names, c \in Chains}
    \cup {Ref("Identifier", FALSE, "", 0, c) : c \in Chains}

JsxShapes ==
    {Ref(k, ok, IF ok THEN (IF k = "JsxLike" THEN "Foo" ELSE "<") ELSE "", 0, <<>>) :
        k \in {"JsxLike", "JsxFragment"}, ok \in BOOLEAN}
    \cup {Ref("Other", TRUE, "Foo", 0, <<>>)}

\* the token of the i-th reference of a file starts at offset i
At(shape, i) == [shape EXCEPT !.range = i]

----------------------------------------------------------------------------
(* The rule *)

is_js_global(name) == name \in js_globals

is_ts_global(name) == name \in ts_globals

ctx_is_global(text) == text \in globals

\* mutation: the TS table is consulted whatever the language
is_global_union(reference_name, language) ==
    is_js_global(reference_name) \/ is_ts_global(reference_name)

is_global(reference_name, language) ==
    IF language = "JavaScript"
    THEN is_js_global(reference_name)
    ELSE is_js_global(reference_name) \/ is_ts_global(reference_name)

as_js_identifier(reference) == reference.kind = "Identifier"

as_jsx_like(reference) == reference.kind = "JsxLike"

as_jsx_fragment(reference) == reference.kind = "JsxFragment"

\* mutation: the parent of the type reference is not looked at
under_as_expression_parent_only(identifier) ==
    /\ Len(identifier.parents) >= 1
    /\ identifier.parents[1] = "TS_REFERENCE_TYPE"

\* identifier.parent::<TsReferenceType>().and_then(|ty| ty.parent::<TsAsExpression>())
\*     .is_some()
under_as_expression(identifier) ==
    /\ Len(identifier.parents) >= 2
    /\ identifier.parents[1] = "TS_REFERENCE_TYPE"
    /\ identifier.parents[2] = "TS_AS_EXPRESSION"

\* identifier.syntax().ancestors(): the node itself, then its parents
ancestors(identifier) == <<"JS_REFERENCE_IDENTIFIER">> \o identifier.parents

\* mutation: an arrow function counts as well
is_non_arrow_function_any(kind) == kind \in AnyJsFunctionKinds

\* !matches!(AnyJsFunction::cast(ancestor),
\*           None | Some(AnyJsFunction::JsArrowFunctionExpression(_)))
is_non_arrow_function(kind) ==
    /\ kind \in AnyJsFunctionKinds
    /\ kind # "JS_ARROW_FUNCTION_EXPRESSION"

is_in_non_arrow_function(identifier) ==
    \E i \in 1..Len(ancestors(identifier)) :
        is_non_arrow_function(ancestors(identifier)[i])

\* mutation: the configured globals are not consulted
identifier_signal_no_allow_list(identifier) ==
    IF ~identifier.tokenOk THEN None
    ELSE LET text == identifier.text IN
         IF text = "const" /\ under_as_expression(identifier) THEN None
         ELSE IF text = "arguments" /\ is_in_non_arrow_function(identifier) THEN None
         ELSE IF is_global(text, source_type) THEN None
         ELSE Some(<<identifier.range, text>>)

\* mutation: the const-assertion exemption does not compare the text
identifier_signal_any_text(identifier) ==
    IF ~identifier.tokenOk THEN None
    ELSE LET text == identifier.text IN
         IF ctx_is_global(text) THEN None
         ELSE IF under_as_expression(identifier) THEN None
         ELSE IF text = "arguments" /\ is_in_non_arrow_function(identifier) THEN None
         ELSE IF is_global(text, source_type) THEN None
         ELSE Some(<<identifier.range, text>>)

identifier_signal(identifier) ==
    IF ~identifier.tokenOk THEN None                       \* value_token().ok()?
    ELSE LET text == identifier.text IN
         IF ctx_is_global(text) THEN None
         ELSE IF text = "const" /\ under_as_expression(identifier) THEN None
         ELSE IF text = "arguments" /\ is_in_non_arrow_function(identifier) THEN None
         ELSE IF is_global(text, source_type) THEN None
         ELSE Some(<<identifier.range, text>>)

jsx_like_signal(jsx_like) ==
    IF jsx_factory = None THEN None                        \* ctx.jsx_factory()?
    ELSE IF Unwrap(jsx_factory) = REACT_JSX_FACTORY THEN None
    ELSE IF ~jsx_like.tokenOk THEN None                    \* name_value_token()?
    ELSE Some(<<jsx_like.range, Unwrap(jsx_factory)>>)

\* mutation: the fragment branch reads the element factory
jsx_fragment_signal_element_factory(jsx_fragment) ==
    IF jsx_factory = None THEN None
    ELSE IF Unwrap(jsx_factory) = REACT_JSX_FACTORY THEN None
    ELSE IF ~jsx_fragment.tokenOk THEN None
    ELSE Some(<<jsx_fragment.range, Unwrap(jsx_factory)>>)

jsx_fragment_signal(jsx_fragment) ==
    IF jsx_fragment_factory = None THEN None               \* ctx.jsx_fragment_factory()?
    ELSE IF Unwrap(jsx_fragment_factory) = REACT_JSX_FACTORY THEN None
    ELSE IF ~jsx_fragment.tokenOk THEN None                \* l_angle_token().ok()?
    ELSE Some(<<jsx_fragment.range, Unwrap(jsx_fragment_factory)>>)

\* the closure run() hands to filter_map
run_closure(reference) ==
    IF as_js_identifier(reference) THEN identifier_signal(reference)
    ELSE IF jsx_runtime = "ReactClassic" THEN
        IF as_jsx_like(reference) THEN jsx_like_signal(reference)
        ELSE IF as_jsx_fragment(reference) THEN jsx_fragment_signal(reference)
        ELSE None
    ELSE None

\* diagnostic(): Some(RuleDiagnostic::new(category, *span, markup).note(..))
diagnostic(state) ==
    Some([span |-> state[1],
          message |-> <<"The ", state[2], " variable is undeclared.">>,
          note |-> "javascript.globals"])

----------------------------------------------------------------------------
(* The state machine *)

\* mutation: a flag whose name was flagged before is dropped
RunStep_dedup ==
    /\ pc = "run"
    /\ pos <= Len(refs)
    /\ LET r == run_closure(refs[order[pos]])
           seen == r # None /\ \E j \in 1..Len(signals) : signals[j][2] = Unwrap(r)[2]
       IN /\ signals' = IF r = None \/ seen THEN signals ELSE Append(signals, Unwrap(r))
          /\ results' = [results EXCEPT ![order[pos]] = r]
    /\ pos' = pos + 1
    /\ UNCHANGED <<config, refs, order, dpos, diags, pc, runs, prev>>

\* mutation: a flagged name is remembered among the configured globals
RunStep_memo ==
    /\ pc = "run"
    /\ pos <= Len(refs)
    /\ LET r == run_closure(refs[order[pos]])
       IN /\ signals' = IF r = None THEN signals ELSE Append(signals, Unwrap(r))
          /\ results' = [results EXCEPT ![order[pos]] = r]
          /\ globals' = IF r = None THEN globals ELSE globals \cup {Unwrap(r)[2]}
    /\ pos' = pos + 1
    /\ UNCHANGED <<js_globals, ts_globals, source_type, jsx_runtime, jsx_factory,
                   jsx_fragment_factory, refs, order, dpos, diags, pc, runs, prev>>

\* mutation: a reference whose token is missing ends the iteration
RunStep_abort ==
    /\ pc = "run"
    /\ pos <= Len(refs)
    /\ LET r == run_closure(refs[order[pos]])
       IN /\ signals' = IF r = None THEN signals ELSE Append(signals, Unwrap(r))
          /\ results' = [results EXCEPT ![order[pos]] = r]
    /\ pos' = IF refs[order[pos]].tokenOk THEN pos + 1 ELSE Len(refs) + 1
    /\ UNCHANGED <<config, refs, order, dpos, diags, pc, runs, prev>>

\* one step of the iterator of run(): the closure on the next reference, its
\* Some value pushed to the collected Vec
RunStep ==
    /\ pc = "run"
    /\ pos <= Len(refs)
    /\ LET r == run_closure(refs[order[pos]])
       IN /\ signals' = IF r = None THEN signals ELSE Append(signals, Unwrap(r))
          /\ results' = [results EXCEPT ![order[pos]] = r]
    /\ pos' = pos + 1
    /\ UNCHANGED <<config, refs, order, dpos, diags, pc, runs, prev>>

\* the iterator is exhausted: collect() returns the signals
RunCollect ==
    /\ pc = "run"
    /\ pos > Len(refs)
    /\ pc' = "diagnostic"
    /\ dpos' = 1
    /\ diags' = <<>>
    /\ UNCHANGED <<config, refs, order, pos, signals, results, runs, prev>>

\* the analyzer hands the next signal to diagnostic()
Diagnostic ==
    /\ pc = "diagnostic"
    /\ dpos <= Len(signals)
    /\ LET d == diagnostic(signals[dpos])
       IN diags' = IF d = None THEN diags ELSE Append(diags, Unwrap(d))
    /\ dpos' = dpos + 1
    /\ UNCHANGED <<config, refs, order, pos, signals, results, pc, runs, prev>>

Finish ==
    /\ pc = "diagnostic"
    /\ dpos > Len(signals)
    /\ pc' = "done"
    /\ UNCHANGED <<config, refs, order, pos, signals, results, dpos, diags, runs, prev>>

Orders(n) ==
    {p \in [1..n -> 1..n] : \A i, j \in 1..n : p[i] = p[j] => i = j}

NoResults == [i \in 1..Len(refs) |-> None]

\* the analyzer runs the rule again on the same file and configuration; the
\* semantic model may yield the references in another order
Rerun ==
    /\ pc = "done"
    /\ runs < MaxRuns
    /\ prev' = [results |-> results, signals |-> signals, order |-> order]
    /\ order' \in Orders(Len(refs))
    /\ runs' = runs + 1
    /\ pos' = 1
    /\ signals' = <<>>
    /\ results' = NoResults
    /\ pc' = "run"
    /\ UNCHANGED <<config, refs, dpos, diags>>

Start ==
    /\ order = [i \in 1..Len(refs) |-> i]
    /\ pos = 1
    /\ signals = <<>>
    /\ results = NoResults
    /\ dpos = 1
    /\ diags = <<>>
    /\ pc = "run"
    /\ runs = 1
    /\ prev = [results |-> NoResults, signals |-> <<>>, order |-> order]

\* the shapes the files of Spec are made of
FileShapes ==
    {Ref("Identifier", TRUE, "PromiseLike", 0, <<"JS_FUNCTION_DECLARATION">>),
     Ref("Identifier", TRUE, "arguments", 0, <<"JS_ARROW_FUNCTION_EXPRESSION">>),
     Ref("Identifier", TRUE, "const", 0, <<"TS_REFERENCE_TYPE", "TS_AS_EXPRESSION">>),
     Ref("Identifier", FALSE, "", 0, <<>>),
     Ref("JsxLike", TRUE, "Foo", 0, <<>>),
     Ref("JsxLike", FALSE, "", 0, <<>>),
     Ref("JsxFragment", FALSE, "", 0, <<>>),
     Ref("Other", TRUE, "Foo", 0, <<>>)}

Files == {[i \in 1..Len(s) |-> At(s[i], i)] : s \in SeqsUpTo(FileShapes, MaxRefs)}

\* Files of up to MaxRefs references under a handful of configurations
Init ==
    /\ js_globals = {}
    /\ ts_globals = {"PromiseLike"}
    /\ globals = {}
    /\ source_type \in {"JavaScript", "TypeScript"}
    /\ \/ /\ jsx_runtime \in {"ReactClassic", "Transparent"}
          /\ jsx_factory = Some("h")
          /\ jsx_fragment_factory = Some("h")
       \/ /\ jsx_runtime = "ReactClassic"
          /\ jsx_factory = None
          /\ jsx_fragment_factory = None
    /\ refs \in Files
    /\ Start

Next == RunStep \/ RunCollect \/ Diagnostic \/ Finish \/ Rerun

Spec == Init /\ [][Next]_vars

\* One reference of any shape: an identifier under every table, allow-list and
\* source type, a JSX reference under every JSX configuration
InitClassify ==
    /\ \/ /\ refs \in {<<At(s, 1)>> : s \in IdentifierShapes}
          /\ js_globals \in SUBSET Names
          /\ ts_globals \in SUBSET Names
          /\ globals \in SUBSET Names
          /\ \/ /\ jsx_runtime = "ReactClassic"
                /\ jsx_factory = Some("h")
                /\ jsx_fragment_factory = Some("h")
             \/ /\ jsx_runtime = "Transparent"
                /\ jsx_factory = None
                /\ jsx_fragment_factory = None
       \/ /\ refs \in {<<At(s, 1)>> : s \in JsxShapes}
          /\ js_globals = {}
          /\ ts_globals = {}
          /\ globals \in SUBSET {"h", "React"}
          /\ jsx_runtime \in {"ReactClassic", "Transparent"}
          /\ jsx_factory \in {None} \cup {Some(f) : f \in FactoryNames}
          /\ jsx_fragment_factory \in {None} \cup {Some(f) : f \in FactoryNames}
    /\ source_type \in {"JavaScript", "TypeScript"}
    /\ Start

NextClassify == RunStep \/ RunCollect \/ Diagnostic \/ Finish

SpecClassify == InitClassify /\ [][NextClassify]_vars

----------------------------------------------------------------------------
(* Vocabulary of the properties, stated on the data of a reference and of  *)
(* the configuration alone                                                  *)

\* the closure has run on the i-th reference in the current invocation
Processed(i) == \E k \in 1..(pos - 1) : order[k] = i

Flagged(i) == results[i] # None

Resolved(i) == results[i] = None

IsIdentifierWithToken(r) == r.kind = "Identifier" /\ r.tokenOk

InAllowList(t) == t \in globals

\* the parent is a TS type reference whose parent is an as-expression
ConstAssertionShape(r) ==
    /\ Len(r.parents) >= 2
    /\ r.parents[1] = "TS_REFERENCE_TYPE"
    /\ r.parents[2] = "TS_AS_EXPRESSION"

\* some ancestor is a function-like node other than an arrow function
HasNonArrowFunctionAncestor(r) ==
    \E k \in 1..Len(r.parents) :
        r.parents[k] \in {"JS_FUNCTION_DECLARATION", "JS_FUNCTION_EXPRESSION",
                          "JS_FUNCTION_EXPORT_DEFAULT_DECLARATION"}

\* the name is a global for the source type of the file
GlobalForSourceType(t) ==
    \/ t \in js_globals
    \/ source_type = "TypeScript" /\ t \in ts_globals

ConstExempt(r) == r.text = "const" /\ ConstAssertionShape(r)

ArgumentsExempt(r) == r.text = "arguments" /\ HasNonArrowFunctionAncestor(r)

\* the flags of the first n references the iterator yielded, in that order
RECURSIVE FlagsOf(_, _, _)
FlagsOf(res, ord, n) ==
    IF n = 0 THEN <<>>
    ELSE LET before == FlagsOf(res, ord, n - 1)
         IN IF res[ord[n]] = None THEN before
            ELSE Append(before, Unwrap(res[ord[n]]))

----------------------------------------------------------------------------
(* C1 *)

\* C1: an Identifier reference whose value token is available is
\* Flagged(range of the token, text) exactly when its text is not in the allow-list,
\* it is not "const" in the const-assertion shape, it is not "arguments" under a
\* non-arrow function, and its text is no global for the source type; in every
\* other case it is Resolved.
C1_IdentifierVerdict ==
    \A i \in DOMAIN refs :
        (Processed(i) /\ IsIdentifierWithToken(refs[i])) =>
            LET r == refs[i]
                flag == /\ ~InAllowList(r.text)
                        /\ ~ConstExempt(r)
                        /\ ~ArgumentsExempt(r)
                        /\ ~GlobalForSourceType(r.text)
            IN results[i] = IF flag THEN Some(<<r.range, r.text>>) ELSE None

\* C1: a TS-only name is flagged in a JavaScript file
C1_Witness ==
    /\ Processed(1)
    /\ IsIdentifierWithToken(refs[1])
    /\ refs[1].text = "PromiseLike"
    /\ source_type = "JavaScript"
    /\ "PromiseLike" \in ts_globals
    /\ results[1] = Some(<<1, "PromiseLike">>)

----------------------------------------------------------------------------
(* C2 *)

AbsentEverywhere(t) == t \notin js_globals /\ t \notin ts_globals /\ t \notin globals

\* C2 as stated: an Identifier whose text is absent from both tables and from the
\* allow-list is Flagged in every syntactic position, "const" and "arguments"
\* included.
C2_Original ==
    \A i \in DOMAIN refs :
        (Processed(i) /\ IsIdentifierWithToken(refs[i])
            /\ AbsentEverywhere(refs[i].text)) => Flagged(i)

\* C2 as amended: such an Identifier is Flagged except in the two exempt
\* positions ("const" in the const-assertion shape, "arguments" under a non-arrow
\* function), where it is Resolved.
C2_Amended ==
    \A i \in DOMAIN refs :
        (Processed(i) /\ IsIdentifierWithToken(refs[i])
            /\ AbsentEverywhere(refs[i].text)) =>
                (Flagged(i) <=> ~ConstExempt(refs[i]) /\ ~ArgumentsExempt(refs[i]))

\* C2: "const" absent from every table is flagged when its parent is a type
\* reference that is not under an as-expression
C2_Witness ==
    /\ Processed(1)
    /\ IsIdentifierWithToken(refs[1])
    /\ refs[1].text = "const"
    /\ refs[1].parents = <<"TS_REFERENCE_TYPE", "JS_FUNCTION_DECLARATION">>
    /\ AbsentEverywhere("const")
    /\ Flagged(1)

----------------------------------------------------------------------------
(* C3 *)

\* C3 as stated: no flag of any reference kind carries a displayName that is in
\* the user allow-list.
C3_NoAllowListedNameFlagged ==
    \A i \in DOMAIN refs :
        (Processed(i) /\ Flagged(i)) => ~InAllowList(Unwrap(results[i])[2])

----------------------------------------------------------------------------
(* C4 *)

\* C4: a TypeScript file recognizes the union of the JS and TS tables and a
\* JavaScript file the JS table only: is_global agrees with the tables that way; an
\* identifier flagged in a TypeScript file is in neither table (so it is flagged in
\* JavaScript too); and where no other rule resolves it, a TS-only name is flagged
\* in JavaScript and resolved in TypeScript.
C4_UnionForTypeScript ==
    /\ \A name \in Names :
        /\ is_global(name, "TypeScript") = (name \in js_globals \/ name \in ts_globals)
        /\ is_global(name, "JavaScript") = (name \in js_globals)
    /\ \A i \in DOMAIN refs :
        (Processed(i) /\ IsIdentifierWithToken(refs[i])) =>
            LET r == refs[i]
                reachesGlobalCheck ==
                    ~InAllowList(r.text) /\ ~ConstExempt(r) /\ ~ArgumentsExempt(r)
            IN /\ (source_type = "TypeScript" /\ Flagged(i)) =>
                      (reachesGlobalCheck /\ r.text \notin js_globals
                                          /\ r.text \notin ts_globals)
               /\ (source_type = "JavaScript" /\ reachesGlobalCheck) =>
                      (Flagged(i) <=> r.text \notin js_globals)
               /\ (reachesGlobalCheck /\ r.text \in ts_globals
                                      /\ r.text \notin js_globals) =>
                      (Flagged(i) <=> source_type = "JavaScript")

\* C4: PromiseLike, in the TS table only, is resolved in a TypeScript file
C4_Witness ==
    /\ Processed(1)
    /\ IsIdentifierWithToken(refs[1])
    /\ refs[1].text = "PromiseLike"
    /\ source_type = "TypeScript"
    /\ "PromiseLike" \in ts_globals /\ "PromiseLike" \notin js_globals
    /\ "PromiseLike" \notin globals
    /\ Resolved(1)

----------------------------------------------------------------------------
(* C5 *)

\* C5: "arguments" is never flagged when some ancestor is a non-arrow function,
\* at any depth and with arrow functions in between; otherwise it is Flagged iff
\* it is neither in the allow-list nor a global for the source type.
C5_ArgumentsExemption ==
    \A i \in DOMAIN refs :
        (Processed(i) /\ IsIdentifierWithToken(refs[i])
            /\ refs[i].text = "arguments") =>
            IF HasNonArrowFunctionAncestor(refs[i])
            THEN Resolved(i)
            ELSE Flagged(i) <=>
                    (~InAllowList("arguments") /\ ~GlobalForSourceType("arguments"))

\* C5: "arguments" in an arrow function inside a function is resolved although no
\* table holds it
C5_Witness ==
    /\ Processed(1)
    /\ IsIdentifierWithToken(refs[1])
    /\ refs[1].text = "arguments"
    /\ refs[1].parents = <<"JS_ARROW_FUNCTION_EXPRESSION", "JS_FUNCTION_DECLARATION">>
    /\ AbsentEverywhere("arguments")
    /\ Resolved(1)

----------------------------------------------------------------------------
(* C6 *)

\* C6: "const" in the const-assertion shape is never flagged whatever the tables,
\* allow-list and source type; "const" elsewhere is decided by the allow-list and
\* the global check alone; another text in the same shape gets no exemption from it.
C6_ConstAssertion ==
    \A i \in DOMAIN refs :
        (Processed(i) /\ IsIdentifierWithToken(refs[i])) =>
            LET r == refs[i] IN
            /\ (r.text = "const" /\ ConstAssertionShape(r)) => Resolved(i)
            /\ (r.text = "const" /\ ~ConstAssertionShape(r)) =>
                  (Flagged(i) <=>
                      (~InAllowList("const") /\ ~GlobalForSourceType("const")))
            /\ (r.text # "const" /\ ConstAssertionShape(r)) =>
                  (Flagged(i) <=>
                      (/\ ~InAllowList(r.text)
                       /\ ~ArgumentsExempt(r)
                       /\ ~GlobalForSourceType(r.text)))

\* C6: "const" absent from every table is resolved in the const-assertion shape
C6_Witness ==
    /\ Processed(1)
    /\ IsIdentifierWithToken(refs[1])
    /\ refs[1].text = "const"
    /\ refs[1].parents = <<"TS_REFERENCE_TYPE", "TS_AS_EXPRESSION">>
    /\ AbsentEverywhere("const")
    /\ Resolved(1)

----------------------------------------------------------------------------
(* C7 *)

\* C7: a JSX element is Flagged(range of the name token, jsxFactory) iff the
\* runtime is Classic, jsxFactory is configured and is not exactly "React" and the
\* name token is available; a JSX fragment likewise with jsxFragmentFactory and the
\* opening angle token; neither decision depends on the other factory.
C7_JsxVerdict ==
    \A i \in DOMAIN refs :
        Processed(i) =>
            LET r == refs[i] IN
            /\ r.kind = "JsxLike" =>
                results[i] =
                    IF /\ jsx_runtime = "ReactClassic"
                       /\ jsx_factory # None
                       /\ jsx_factory # Some("React")
                       /\ r.tokenOk
                    THEN Some(<<r.range, Unwrap(jsx_factory)>>)
                    ELSE None
            /\ r.kind = "JsxFragment" =>
                results[i] =
                    IF /\ jsx_runtime = "ReactClassic"
                       /\ jsx_fragment_factory # None
                       /\ jsx_fragment_factory # Some("React")
                       /\ r.tokenOk
                    THEN Some(<<r.range, Unwrap(jsx_fragment_factory)>>)
                    ELSE None

\* C7: a fragment is flagged with jsxFragmentFactory "react" while jsxFactory is
\* "React"
C7_Witness ==
    /\ Processed(1)
    /\ refs[1].kind = "JsxFragment"
    /\ jsx_runtime = "ReactClassic"
    /\ jsx_factory = Some("React")
    /\ jsx_fragment_factory = Some("react")
    /\ results[1] = Some(<<1, "react">>)

----------------------------------------------------------------------------
(* C8 *)

Verdicts == [i \in DOMAIN refs |-> run_closure(refs[i])]

DiagnosticOf(d, flag) == d.span = flag[1] /\ d.message[2] = flag[2]

\* C8: run() collects exactly one flag per reference that classifies as Flagged
\* and none for a Resolved one, without merging repeated names, in the order the
\* references were yielded; diagnostic() turns every flag into exactly one
\* diagnostic at the flag's span naming the flag's displayName.
C8_OneFlagPerFlaggedReference ==
    /\ signals = FlagsOf(Verdicts, order, pos - 1)
    /\ pc # "run" => pos = Len(refs) + 1
    /\ pc = "diagnostic" => Len(diags) = dpos - 1
    /\ pc = "done" => Len(diags) = Len(signals)
    /\ pc \in {"diagnostic", "done"} =>
          \A j \in 1..Len(diags) : DiagnosticOf(diags[j], signals[j])

\* C8: two references to the same undeclared name yield two flags and two
\* diagnostics, in order
C8_Witness ==
    /\ pc = "done"
    /\ Len(refs) = 2
    /\ signals = <<<<1, "PromiseLike">>, <<2, "PromiseLike">>>>
    /\ Len(diags) = 2
    /\ diags[1].span = 1 /\ diags[2].span = 2
    /\ diags[2].message = <<"The ", "PromiseLike", " variable is undeclared.">>

----------------------------------------------------------------------------
(* C9 *)

C9_SameResults ==
    /\ \A i \in DOMAIN refs : Processed(i) => results[i] = Verdicts[i]
    /\ (runs >= 2 /\ pc # "run") =>
          /\ results = prev.results
          /\ signals = FlagsOf(prev.results, order, Len(refs))
          /\ order = prev.order => signals = prev.signals

\* C9: the result of a reference depends on that reference and the configuration
\* only: a later run() over the same references, yielded in any order, gives every
\* reference the result it had before and the flags in the order of the yield (the
\* identical flag sequence when the order is unchanged); no step changes the
\* tables, the allow-list, the source type, the JSX configuration or a reference.
C9_PureAndIdempotent ==
    /\ []C9_SameResults
    /\ [][config' = config /\ refs' = refs]_vars

\* C9: a second run over the reversed order has flagged both references again, the
\* flags reversed
C9_Witness ==
    /\ runs = 2
    /\ pc = "done"
    /\ prev.order = <<1, 2>>
    /\ order = <<2, 1>>
    /\ prev.signals = <<<<1, "PromiseLike">>, <<2, "h">>>>
    /\ signals = <<<<2, "h">>, <<1, "PromiseLike">>>>

----------------------------------------------------------------------------
(* C10 *)

\* C10: every reference gets exactly one result, Resolved or one flag; an
\* Identifier without value token, a Classic-mode JSX element without jsxFactory or
\* name token, a Classic-mode JSX fragment without jsxFragmentFactory or opening
\* angle token, and a reference of no known kind are Resolved; a run ends with every
\* reference classified, each as it classifies alone.
C10_TotalFailOpen ==
    /\ \A i \in DOMAIN refs : Cardinality(results[i]) <= 1
    /\ \A i \in DOMAIN refs :
        Processed(i) =>
            LET r == refs[i] IN
            /\ (r.kind = "Identifier" /\ ~r.tokenOk) => Resolved(i)
            /\ (r.kind = "JsxLike" /\ (jsx_factory = None \/ ~r.tokenOk)) => Resolved(i)
            /\ (r.kind = "JsxFragment" /\ (jsx_fragment_factory = None \/ ~r.tokenOk))
                  => Resolved(i)
            /\ r.kind \notin {"Identifier", "JsxLike", "JsxFragment"} => Resolved(i)
    /\ pc # "run" =>
          \A i \in DOMAIN refs : Processed(i) /\ results[i] = Verdicts[i]

\* C10: an identifier without token is resolved and the undeclared name after it
\* is flagged all the same
C10_Witness ==
    /\ pc = "done"
    /\ Len(refs) = 2
    /\ refs[1].kind = "Identifier" /\ ~refs[1].tokenOk
    /\ Resolved(1)
    /\ results[2] = Some(<<2, "PromiseLike">>)
    /\ signals = <<<<2, "PromiseLike">>>>

====
